---------------------------- MODULE Spec2Model ----------------------------
(***************************************************************************)
(* Model of the composite scripts of roy-scripts (CompMBChla, CompMBSST,   *)
(* CompMWChla, CompMWSST and their explicit-start "mday" variants).        *)
(*                                                                         *)
(* A composite job parses its arguments, resolves the start day, gathers   *)
(* the daily files of one or two day-of-year ranges with glob, sorts them, *)
(* accumulates every file into the (mean, num) pair with meanVar, masks    *)
(* the cells without observations, writes the NetCDF file and sends it.    *)
(*                                                                         *)
(* Strings that the scripts format and parse (years, zero-padded days of   *)
(* year) are sequences of decimal digits; single-precision sums are        *)
(* integers rounded to 24 significant bits.                                *)
(***************************************************************************)
EXTENDS Integers, Sequences, FiniteSets, TLC

(***************************************************************************)
(* Bounds of the model.                                                    *)
(***************************************************************************)
\* last end year of a job run; the end years are 2025 .. MaxYear
MaxYear == 2025
\* largest end day-of-year argument of a job run
MaxEndDoy == 2
\* largest composite length argument of a job run
MaxInterval == 3
\* largest number of daily files present in the data directories of a job run
MaxFiles == 2
\* number of grid cells of the modelled grids
NCells == 2
\* largest composite length of the date resolution runs
MaxLength == 6
\* largest number of observation grids fed to the accumulator on its own
MaxGrids == 3
\* largest number of granules present in the data directories of a swath job
MaxGranules == 2

(***************************************************************************)
(* Program constants.                                                      *)
(***************************************************************************)
\* fill_value of ma.array(...) in every composite script
FillValue == -9999999
\* width of rjust(3, '0') / zfill(3)
DoyWidth == 3
\* number of significand bits of np.single
SingleBits == 24

(***************************************************************************)
(* Decimal strings: str(), rjust(), int().                                 *)
(***************************************************************************)
RECURSIVE Str(_)
\* str(n) for n >= 0: the decimal digits, most significant first
Str(n) == IF n < 10 THEN <<n>> ELSE Str(n \div 10) \o <<n % 10>>

\* s.rjust(w, '0'): pads on the left up to width w, never truncates
Rjust(s, w) == IF Len(s) >= w THEN s ELSE [i \in 1..(w - Len(s)) |-> 0] \o s

RECURSIVE ToInt(_)
\* int(s) of a digit string
ToInt(s) == IF Len(s) = 0 THEN 0
            ELSE 10 * ToInt(SubSeq(s, 1, Len(s) - 1)) + s[Len(s)]

(***************************************************************************)
(* datetime arithmetic: datetime(year, 1, 1) + timedelta(days), .year and  *)
(* strftime("%j").  A date is kept as (year, day of year).                 *)
(***************************************************************************)
\* the Gregorian rule datetime uses
IsLeapYear(y) == (y % 4 = 0 /\ y % 100 # 0) \/ y % 400 = 0

DaysInYear(y) == IF IsLeapYear(y) THEN 366 ELSE 365

RECURSIVE Normalize(_, _)
\* the date that lies (j - 1) days after January 1st of year y, j any integer
Normalize(y, j) ==
    IF j < 1 THEN Normalize(y - 1, j + DaysInYear(y - 1))
    ELSE IF j > DaysInYear(y) THEN Normalize(y + 1, j - DaysInYear(y))
    ELSE [year |-> y, doy |-> j]

\* datetime(int(endyearC), 1, 1) + timedelta(int(endDoyC) - 1)
DateOfDoy(yearC, doyC) == Normalize(ToInt(yearC), ToInt(doyC))

\* d + timedelta(days = k)
AddDays(d, k) == Normalize(d.year, d.doy + k)

\* d.strftime("%j"): day of year, zero padded to three digits
StrftimeJ(d) == Rjust(Str(d.doy), 3)


(***************************************************************************)
(* File names.  A character is a number: a decimal digit is its value, any *)
(* other character its ASCII code.  A string is a sequence of characters.  *)
(***************************************************************************)
\* 'MB' and 'MW', the sensor prefixes of the glob patterns and output names
PrefixMB == <<77, 66>>
PrefixMW == <<77, 87>>
\* the data types: 'chla', 'k490', 'par0', 'cflh', 'sstd'
DtChla == <<99, 104, 108, 97>>
DtK490 == <<107, 4, 9, 0>>
DtPar0 == <<112, 97, 114, 0>>
DtCflh == <<99, 102, 108, 104>>
DtSstd == <<115, 115, 116, 100>>
\* '.nc'
ExtNc == <<46, 110, 99>>
\* ', ' between two file names of filesUsed
CommaSpace == <<44, 32>>
\* '_'
Underscore == <<95>>

\* the eight composite scripts
IntervalScripts == {"CompMBChla", "CompMBSST", "CompMWChla", "CompMWSST"}
MdayScripts == {"CompMBChlamday", "CompMBSSTmday", "CompMWChlamday", "CompMWSSTmday"}
Scripts == IntervalScripts \cup MdayScripts

\* the prefix a script puts into myString and outFile
Prefix(s) == IF s \in {"CompMBChla", "CompMBSST", "CompMBChlamday", "CompMBSSTmday"}
             THEN PrefixMB ELSE PrefixMW

\* dtypeList of the multi-variable scripts, and the single dtype of the others
DtypeList(s) ==
    IF s \in {"CompMWChla", "CompMWChlamday"} THEN <<DtChla, DtK490, DtPar0, DtCflh>>
    ELSE IF s \in {"CompMBChla", "CompMBChlamday"} THEN <<DtChla>>
    ELSE <<DtSstd>>

\* a wraparound branch that never assigns filesUsed
WrapLeavesFilesUsed(s) == FALSE

\* whether the wraparound branch of the script binds filesUsed before its loop;
\* CompMBSSTmday binds fileUsed instead
WrapBindsFilesUsed(s) == s # "CompMBSSTmday"

\* truth value of the object isleap in "if (isleap):": the function imported
\* from roylib is tested, it is not called
IsleapTruthy == TRUE

\* myString = prefix + yearC + doyC + '*' + dtype + '.nc', as (head, tail) of the '*'
MyString(prefix, yearC, doy, dtype) ==
    [head |-> prefix \o yearC \o Rjust(Str(doy), 3), tail |-> dtype \o ExtNc]

\* fnmatch of a name against a pattern with one '*'
Matches(name, pat) ==
    /\ Len(name) >= Len(pat.head) + Len(pat.tail)
    /\ SubSeq(name, 1, Len(pat.head)) = pat.head
    /\ SubSeq(name, Len(name) - Len(pat.tail) + 1, Len(name)) = pat.tail

\* glob.glob(myString) in the current directory dir of the file system files
Glob(files, dir, pat) == {f.name : f \in {g \in files : g.dir = dir /\ Matches(g.name, pat)}}

RECURSIVE LexLess(_, _)
\* s < t for two strings, as list.sort() compares them
LexLess(s, t) ==
    IF Len(t) = 0 THEN FALSE
    ELSE IF Len(s) = 0 THEN TRUE
    ELSE IF s[1] # t[1] THEN s[1] < t[1]
    ELSE LexLess(Tail(s), Tail(t))

RECURSIVE SortNames(_)
\* the names of a set in ascending order (one order glob may return them in)
SortNames(S) ==
    IF S = {} THEN <<>>
    ELSE LET m == CHOOSE x \in S : \A y \in S \ {x} : LexLess(x, y)
         IN  <<m>> \o SortNames(S \ {m})

RECURSIVE Insert(_, _)
\* the sorted list s with the name x put in its place
Insert(x, s) ==
    IF Len(s) = 0 THEN <<x>>
    ELSE IF LexLess(x, s[1]) THEN <<x>> \o s
    ELSE <<s[1]>> \o Insert(x, Tail(s))

RECURSIVE Sort(_)
\* list.sort() of a list of names
Sort(s) == IF Len(s) = 0 THEN <<>> ELSE Insert(s[1], Sort(Tail(s)))

RECURSIVE Chain(_, _, _, _, _, _, _)
\* list(chain.from_iterable(fileList)) after the loop
\*   for doy in range(lo, hi + 1): fileList.append(glob.glob(myString))
Chain(files, dir, prefix, yearC, lo, hi, dtype) ==
    IF lo > hi THEN <<>>
    ELSE IF lo = hi THEN SortNames(Glob(files, dir, MyString(prefix, yearC, lo, dtype)))
    ELSE LET mid == (lo + hi) \div 2
         IN  Chain(files, dir, prefix, yearC, lo, mid, dtype)
             \o Chain(files, dir, prefix, yearC, mid + 1, hi, dtype)

\* fileList after the gathering loop, chain.from_iterable and fileList.sort();
\* only the files of the current directory can match a pattern
GatherSorted(files, dir, prefix, yearC, lo, hi, dtype) ==
    LET here == {g \in files : g.dir = dir}
    IN  IF here = {} THEN <<>>
        ELSE Sort(Chain(here, dir, prefix, yearC, lo, hi, dtype))

\* dataDir1 = dataDir.replace(endyearC, startYearC); a directory is the sequence
\* of its path components
Replace(path, old, new) == [i \in DOMAIN path |-> IF path[i] = old THEN new ELSE path[i]]

(***************************************************************************)
(* Arrays.  np.single values are integers rounded to 24 significant bits.  *)
(***************************************************************************)
Cells == 1..NCells

RECURSIVE Ulp(_)
\* spacing of the np.single values around x >= 0
Ulp(x) == IF x < 2^SingleBits THEN 1 ELSE 2 * Ulp(x \div 2)

\* x >= 0 rounded to the nearest np.single, ties to the even significand
RoundSingle(x) ==
    LET u == Ulp(x)
        q == x \div u
        r == x % u
    IN  IF 2 * r < u THEN q * u
        ELSE IF 2 * r > u THEN (q + 1) * u
        ELSE IF q % 2 = 0 THEN q * u ELSE (q + 1) * u

\* np.zeros(shape, dtype)
Zeros == [c \in Cells |-> 0]

\* a cell of a daily grid that holds an observation
IsValid(v) == v # FillValue

\* roylib meanVar(mean, num, obs): adds every valid cell of obs to the running
\* sum and counts it
meanVar(mean, num, obs) ==
    [mean |-> [c \in Cells |-> IF IsValid(obs[c]) THEN RoundSingle(mean[c] + obs[c])
                                ELSE mean[c]],
     num  |-> [c \in Cells |-> IF IsValid(obs[c]) THEN num[c] + 1 ELSE num[c]]]

\* a masked array that drops the given mask
MaArrayUnmasked(a, m, fv) ==
    [data |-> a.data,
     mask |-> [c \in Cells |-> IF "mask" \in DOMAIN a THEN a.mask[c] ELSE FALSE],
     fill_value |-> fv]

\* a masked array whose given mask flips the mask a already carries
MaArrayToggled(a, m, fv) ==
    [data |-> a.data,
     mask |-> [c \in Cells |-> m[c] # (IF "mask" \in DOMAIN a THEN a.mask[c] ELSE FALSE)],
     fill_value |-> fv]

\* ma.array(a, mask = m, fill_value = fv) with keep_mask at its default: the
\* data of a, the given mask joined with the mask a already carries
MaArray(a, m, fv) ==
    [data |-> a.data,
     mask |-> [c \in Cells |-> m[c] \/ (IF "mask" \in DOMAIN a THEN a.mask[c] ELSE FALSE)],
     fill_value |-> fv]

\* ma.filled(): what a masked array reports per cell
Filled(a) == [c \in Cells |-> IF a.mask[c] THEN a.fill_value ELSE a.data[c]]

(***************************************************************************)
(* The state of a composite job.                                           *)
(***************************************************************************)
VARIABLES
    script,     \* the script that runs
    argv,       \* sys.argv[3..5]: endyearC, the end day and the fifth argument
    fs,         \* the daily files present on disk, each [dir, name]
    obsValues,  \* the values a cell of a daily file may hold
    content,    \* the grid of every daily file read so far
    pc,         \* the statement the job is at
    dt,         \* index of dtype in dtypeList
    cwd,        \* current directory (os.chdir)
    mean,       \* running sum, an ndarray until it is masked
    num,        \* observation count
    fileList,   \* the sorted file list being looped over
    idx,        \* position of fName in fileList
    filesUsed,  \* the provenance string and whether the name is bound
    searched,   \* the (directory, year, first day, last day) ranges globbed so far
    consumed,   \* the files accumulated so far, in order
    written,    \* the calls of makeNetcdf / makeNetcdfmDay / grd2netcdf1
    deployed,   \* the calls of send_to_servers
    temp_data,  \* the point cloud of every variable of a swath job
    workFiles,  \* the granules that lie in the work directory of a swath job
    staged      \* the granules a swath job copied to its work directory, in order

vars == <<script, argv, fs, obsValues, content, pc, dt, cwd, mean, num, fileList, idx,
          filesUsed, searched, consumed, written, deployed, temp_data, workFiles, staged>>

\* the state that only the swath jobs use
swathVars == <<temp_data, workFiles, staged>>

\* endyearC = sys.argv[3]
endyearC == argv.endyearC

\* endDoyC = sys.argv[4].rjust(3, '0')
endDoyC == Rjust(argv.endDoy, DoyWidth)

\* endDoy = int(endDoyC)
endDoy == ToInt(endDoyC)

\* myDateEnd = datetime(int(endyearC), 1, 1) + timedelta(int(endDoyC) - 1)
myDateEnd == DateOfDoy(endyearC, endDoyC)

\* a start date one day too early: timedelta(days = -interval)
myDateStartOffByOne == AddDays(myDateEnd, -ToInt(argv.arg5))

\* myDateStart = myDateEnd + timedelta(days = -(interval - 1)), interval scripts
myDateStart == AddDays(myDateEnd, -(ToInt(argv.arg5) - 1))

\* startDoyC: strftime("%j").zfill(3) of the start date in the interval scripts,
\* sys.argv[5].rjust(3, '0') in the mday scripts
startDoyC ==
    IF script \in MdayScripts THEN Rjust(argv.arg5, DoyWidth)
    ELSE Rjust(StrftimeJ(myDateStart), DoyWidth)

\* startDoy = int(startDoyC)
startDoy == ToInt(startDoyC)

\* a start year that is always the end year
startYearCOfEnd == endyearC

\* startYearC: str(myDateStart.year) in the interval scripts, endyearC in the
\* mday scripts
startYearC ==
    IF script \in MdayScripts THEN endyearC ELSE Str(myDateStart.year)

\* interval: int(sys.argv[5]) in the interval scripts, endDoy - startDoy + 1 in
\* the mday scripts
interval ==
    IF script \in MdayScripts THEN endDoy - startDoy + 1 ELSE ToInt(argv.arg5)

\* dtype of the current iteration
dtype == DtypeList(script)[dt]

\* the directory of the daily files of a year: <root>/<year>
DataRoot == <<100, 97, 116, 97>>
DirOfYear(yearC) == <<DataRoot, yearC>>

\* dataDir = sys.argv[1], the directory of the end year
dataDir == DirOfYear(endyearC)

\* dataDir1 = dataDir.replace(endyearC, startYearC)
dataDir1 == Replace(dataDir, endyearC, startYearC)

\* endday of the wraparound branch
endday == IF IsleapTruthy THEN 366 ELSE 365

\* outFile = prefix + startYearC + startDoyC + '_' + endyearC + endDoyC + '_' + dtype + '.nc'
outFile ==
    Prefix(script) \o startYearC \o startDoyC \o Underscore \o endyearC \o endDoyC
        \o Underscore \o dtype \o ExtNc

\* remote_dir of send_to_servers: '/MB/chla/', '/MB/sstd/', '/MW/' + dtype + '/'
remote_dir == <<47>> \o Prefix(script) \o <<47>> \o dtype \o <<47>>

\* the interval flag of send_to_servers: str(interval), 'm' in the mday scripts
interval_flag == IF script \in MdayScripts THEN <<109>> ELSE Str(interval)

(***************************************************************************)
(* The inputs of a job run.                                                *)
(***************************************************************************)
\* name of the daily file of a day: <prefix><year><doy>_<year><doy>_<dtype>.nc
DailyName(prefix, year, doy, dt_) ==
    prefix \o Str(year) \o Rjust(Str(doy), DoyWidth) \o Underscore
        \o Str(year) \o Rjust(Str(doy), DoyWidth) \o Underscore \o dt_ \o ExtNc

\* the days of the end year that may hold a daily file: its first and last days
FileDoys(year) == {d \in (1..MaxEndDoy) \cup {365, 366} : d <= DaysInYear(year)}

\* the days of the year before that may hold a daily file: its last days
FileDoysBefore(year) == {d \in {365, 366} : d <= DaysInYear(year - 1)}

\* the daily files that may be present for a job, each in the directory of its
\* year: files of the first dtype on all those days, and a file of the second
\* dtype of a multi-variable script on the first day of the end year
Candidates(s, year) ==
    {[dir |-> DirOfYear(Str(year)), name |-> DailyName(Prefix(s), year, d, DtypeList(s)[1])] :
        d \in FileDoys(year)}
    \cup
    {[dir |-> DirOfYear(Str(year - 1)),
      name |-> DailyName(Prefix(s), year - 1, d, DtypeList(s)[1])] :
        d \in FileDoysBefore(year)}
    \cup
    {[dir |-> DirOfYear(Str(year)), name |-> DailyName(Prefix(s), year, 1, DtypeList(s)[i])] :
        i \in {j \in DOMAIN DtypeList(s) : j = 2}}

RECURSIVE SubsetsUpTo(_, _)
\* the subsets of S with at most k elements
SubsetsUpTo(S, k) ==
    IF k = 0 THEN {{}}
    ELSE LET P == SubsetsUpTo(S, k - 1) IN P \cup {q \cup {x} : q \in P, x \in S}

\* the fifth argument: a composite length, or a start day of year
FifthArgs(s) ==
    IF s \in MdayScripts THEN (1..MaxEndDoy) \cup {365, 366} ELSE 1..MaxInterval

\* the grids a daily file may hold
JobGrids == [Cells -> obsValues]

\* what Dataset(fName) and the read of the variable may give: the grid of the
\* file, or an exception when the file cannot be opened or parsed
DatasetOutcomes ==
    {[ok |-> TRUE, grid |-> g] : g \in JobGrids} \cup {[ok |-> FALSE, grid |-> Zeros]}

Init ==
    /\ script \in Scripts
    /\ \E y \in 2025..MaxYear, d \in 1..MaxEndDoy, a \in FifthArgs(script) :
          argv = [endyearC |-> Str(y), endDoy |-> Str(d), arg5 |-> Str(a)]
    /\ fs \in SubsetsUpTo(Candidates(script, ToInt(argv.endyearC)), MaxFiles)
    /\ obsValues = {FillValue, 2}
    /\ content = <<>>
    /\ pc = "start"
    /\ dt = 1
    /\ cwd = dataDir
    /\ mean = [data |-> Zeros]
    /\ num = Zeros
    /\ fileList = <<>>
    /\ idx = 1
    /\ filesUsed = [bound |-> FALSE, str |-> <<>>]
    /\ searched = <<>>
    /\ consumed = <<>>
    /\ written = <<>>
    /\ deployed = <<>>
    /\ temp_data = <<>>
    /\ workFiles = {}
    /\ staged = <<>>

(***************************************************************************)
(* The steps of a job.                                                     *)
(***************************************************************************)
\* the top of the dtype iteration up to the first file loop: the arrays are
\* allocated, the branch is chosen, the first range is globbed and sorted
Begin ==
    /\ pc = "start"
    /\ mean' = [data |-> Zeros]
    /\ num' = Zeros
    /\ idx' = 1
    /\ consumed' = <<>>
    /\ IF endDoy > startDoy
       THEN /\ cwd' = dataDir
            /\ fileList' = GatherSorted(fs, dataDir, Prefix(script), endyearC,
                                        startDoy, endDoy, dtype)
            /\ searched' = <<[dir |-> dataDir, yearC |-> endyearC,
                              lo |-> startDoy, hi |-> endDoy]>>
            /\ filesUsed' = [bound |-> TRUE, str |-> <<>>]
            /\ pc' = "same"
       ELSE /\ cwd' = dataDir1
            /\ fileList' = GatherSorted(fs, dataDir1, Prefix(script), startYearC,
                                        startDoy, endday, dtype)
            /\ searched' = <<[dir |-> dataDir1, yearC |-> startYearC,
                              lo |-> startDoy, hi |-> endday]>>
            /\ filesUsed' = IF WrapBindsFilesUsed(script)
                            THEN [bound |-> TRUE, str |-> <<>>]
                            ELSE filesUsed
            /\ pc' = "wrap1"
    /\ UNCHANGED swathVars
    /\ UNCHANGED <<script, argv, fs, obsValues, content, dt, written, deployed>>

\* an iteration that accumulates into a fresh sum instead of the running one
ReadFileFresh ==
    /\ pc \in {"same", "wrap1", "wrap2"}
    /\ idx <= Len(fileList)
    /\ LET fName == fileList[idx]
           file == [dir |-> cwd, name |-> fName]
       IN  IF ~filesUsed.bound
           THEN /\ pc' = "error"
                /\ UNCHANGED <<content, mean, num, idx, filesUsed, consumed>>
           ELSE /\ filesUsed' =
                      [bound |-> TRUE,
                       str |-> IF Len(filesUsed.str) = 0 THEN fName
                               ELSE filesUsed.str \o CommaSpace \o fName]
                /\ \E ds \in (IF file \in DOMAIN content THEN {content[file]}
                              ELSE DatasetOutcomes) :
                      /\ content' = [f \in DOMAIN content \cup {file} |->
                                        IF f = file THEN ds ELSE content[f]]
                      /\ IF ds.ok
                         THEN /\ mean' = [data |-> meanVar(Zeros, num, ds.grid).mean]
                              /\ num' = meanVar(mean.data, num, ds.grid).num
                              /\ idx' = idx + 1
                              /\ consumed' = Append(consumed, file)
                              /\ pc' = pc
                         ELSE /\ pc' = "error"
                              /\ UNCHANGED <<mean, num, idx, consumed>>
    /\ UNCHANGED swathVars
    /\ UNCHANGED <<script, argv, fs, obsValues, dt, cwd, fileList, searched, written, deployed>>

\* an iteration that accumulates into a fresh count instead of the running one
ReadFileCountReset ==
    /\ pc \in {"same", "wrap1", "wrap2"}
    /\ idx <= Len(fileList)
    /\ LET fName == fileList[idx]
           file == [dir |-> cwd, name |-> fName]
       IN  IF ~filesUsed.bound
           THEN /\ pc' = "error"
                /\ UNCHANGED <<content, mean, num, idx, filesUsed, consumed>>
           ELSE /\ filesUsed' =
                      [bound |-> TRUE,
                       str |-> IF Len(filesUsed.str) = 0 THEN fName
                               ELSE filesUsed.str \o CommaSpace \o fName]
                /\ \E ds \in (IF file \in DOMAIN content THEN {content[file]}
                              ELSE DatasetOutcomes) :
                      /\ content' = [f \in DOMAIN content \cup {file} |->
                                        IF f = file THEN ds ELSE content[f]]
                      /\ IF ds.ok
                         THEN /\ mean' = [data |-> meanVar(mean.data, num, ds.grid).mean]
                              /\ num' = meanVar(mean.data, Zeros, ds.grid).num
                              /\ idx' = idx + 1
                              /\ consumed' = Append(consumed, file)
                              /\ pc' = pc
                         ELSE /\ pc' = "error"
                              /\ UNCHANGED <<mean, num, idx, consumed>>
    /\ UNCHANGED swathVars
    /\ UNCHANGED <<script, argv, fs, obsValues, dt, cwd, fileList, searched, written, deployed>>

\* one iteration of a file loop: the name is appended to filesUsed, the file is
\* read and accumulated; reading the unbound filesUsed raises NameError, and an
\* exception of Dataset(fName) is not caught
ReadFile ==
    /\ pc \in {"same", "wrap1", "wrap2"}
    /\ idx <= Len(fileList)
    /\ LET fName == fileList[idx]
           file == [dir |-> cwd, name |-> fName]
       IN  IF ~filesUsed.bound
           THEN /\ pc' = "error"
                /\ UNCHANGED <<content, mean, num, idx, filesUsed, consumed>>
           ELSE /\ filesUsed' =
                      [bound |-> TRUE,
                       str |-> IF Len(filesUsed.str) = 0 THEN fName
                               ELSE filesUsed.str \o CommaSpace \o fName]
                /\ \E ds \in (IF file \in DOMAIN content THEN {content[file]}
                              ELSE DatasetOutcomes) :
                      /\ content' = [f \in DOMAIN content \cup {file} |->
                                        IF f = file THEN ds ELSE content[f]]
                      /\ IF ds.ok
                         THEN /\ mean' = [data |-> meanVar(mean.data, num, ds.grid).mean]
                              /\ num' = meanVar(mean.data, num, ds.grid).num
                              /\ idx' = idx + 1
                              /\ consumed' = Append(consumed, file)
                              /\ pc' = pc
                         ELSE /\ pc' = "error"
                              /\ UNCHANGED <<mean, num, idx, consumed>>
    /\ UNCHANGED swathVars
    /\ UNCHANGED <<script, argv, fs, obsValues, dt, cwd, fileList, searched, written, deployed>>

\* after the first loop of the wraparound branch: back to dataDir, days 1..endDoy
\* of the end year are globbed and sorted
SecondRange ==
    /\ pc = "wrap1"
    /\ idx > Len(fileList)
    /\ cwd' = dataDir
    /\ fileList' = GatherSorted(fs, dataDir, Prefix(script), endyearC, 1, endDoy, dtype)
    /\ searched' = Append(searched, [dir |-> dataDir, yearC |-> endyearC,
                                     lo |-> 1, hi |-> endDoy])
    /\ idx' = 1
    /\ pc' = "wrap2"
    /\ UNCHANGED swathVars
    /\ UNCHANGED <<script, argv, fs, obsValues, content, dt, mean, num, filesUsed, consumed,
                   written, deployed>>

\* mean = ma.array(mean, mask = (num == 0), fill_value = -9999999.)
Mask ==
    /\ pc \in {"same", "wrap2"}
    /\ idx > Len(fileList)
    /\ mean' = MaArray(mean, [c \in Cells |-> num[c] = 0], FillValue)
    /\ pc' = "write"
    /\ UNCHANGED swathVars
    /\ UNCHANGED <<script, argv, fs, obsValues, content, dt, cwd, num, fileList, idx, filesUsed,
                   searched, consumed, written, deployed>>

\* ncFile = makeNetcdf(mean, num, interval, outFile, filesUsed, workDir);
\* passing the unbound filesUsed raises NameError
Write ==
    /\ pc = "write"
    /\ IF ~filesUsed.bound
       THEN /\ pc' = "error"
            /\ UNCHANGED written
       ELSE /\ written' = Append(written,
                   [mean |-> mean, num |-> num, interval |-> interval,
                    outFile |-> outFile, filesUsed |-> filesUsed.str])
            /\ pc' = "send"
    /\ UNCHANGED swathVars
    /\ UNCHANGED <<script, argv, fs, obsValues, content, dt, cwd, mean, num, fileList, idx,
                   filesUsed, searched, consumed, deployed>>

\* send_to_servers(ncFile, remote_dir, interval_flag), then the next dtype
Send ==
    /\ pc = "send"
    /\ deployed' = Append(deployed, [ncFile |-> outFile, remote_dir |-> remote_dir,
                                     interval_flag |-> interval_flag])
    /\ IF dt < Len(DtypeList(script))
       THEN dt' = dt + 1 /\ pc' = "start"
       ELSE dt' = dt /\ pc' = "done"
    /\ UNCHANGED swathVars
    /\ UNCHANGED <<script, argv, fs, obsValues, content, cwd, mean, num, fileList, idx,
                   filesUsed, searched, consumed, written>>

Next == Begin \/ ReadFile \/ SecondRange \/ Mask \/ Write \/ Send

Spec == Init /\ [][Next]_vars

(***************************************************************************)
(* Date resolution on its own: every end day of a year, short and long     *)
(* composite lengths, no daily file on disk.  The job runs up to the end   *)
(* of its gathering steps.                                                 *)
(***************************************************************************)
\* the end years: leap and common years, and the year after the common year 2100
ResolveYears == (2024..MaxYear) \cup {2101}

\* the fifth argument: composite lengths, or the start days of ranges of at most
\* MaxLength days that lie in the end year or begin at the end of a year
ResolveFifthArgs(s, d) ==
    IF s \in MdayScripts
    THEN {a \in 1..366 : (d - MaxLength < a /\ a <= d) \/ (a > d /\ a > 366 - MaxLength)}
    ELSE (1..MaxLength) \cup {31, 365, 400}

ResolveInit ==
    /\ script \in Scripts
    /\ \E y \in ResolveYears :
         \E d \in 1..DaysInYear(y) :
           \E a \in ResolveFifthArgs(script, d) :
              argv = [endyearC |-> Str(y), endDoy |-> Str(d), arg5 |-> Str(a)]
    /\ fs = {}
    /\ obsValues = {FillValue, 1}
    /\ content = <<>>
    /\ pc = "start"
    /\ dt = 1
    /\ cwd = dataDir
    /\ mean = [data |-> Zeros]
    /\ num = Zeros
    /\ fileList = <<>>
    /\ idx = 1
    /\ filesUsed = [bound |-> FALSE, str |-> <<>>]
    /\ searched = <<>>
    /\ consumed = <<>>
    /\ written = <<>>
    /\ deployed = <<>>
    /\ temp_data = <<>>
    /\ workFiles = {}
    /\ staged = <<>>

ResolveNext == Begin \/ SecondRange

ResolveSpec == ResolveInit /\ [][ResolveNext]_vars

(***************************************************************************)
(* Accumulation on its own: a same-year composite of MaxGrids days whose   *)
(* daily files are all present and may hold large values, followed by the  *)
(* masking statement applied a second time to its own result.              *)
(***************************************************************************)
AccInit ==
    /\ script \in {"CompMBChla", "CompMWSST"}
    /\ argv = [endyearC |-> Str(2025), endDoy |-> Str(MaxGrids), arg5 |-> Str(MaxGrids)]
    /\ fs = {[dir |-> dataDir, name |-> DailyName(Prefix(script), 2025, d, DtypeList(script)[1])] :
                d \in 1..MaxGrids}
    /\ obsValues = {FillValue, 1, 2^SingleBits}
    /\ content = <<>>
    /\ pc = "start"
    /\ dt = 1
    /\ cwd = dataDir
    /\ mean = [data |-> Zeros]
    /\ num = Zeros
    /\ fileList = <<>>
    /\ idx = 1
    /\ filesUsed = [bound |-> FALSE, str |-> <<>>]
    /\ searched = <<>>
    /\ consumed = <<>>
    /\ written = <<>>
    /\ deployed = <<>>
    /\ temp_data = <<>>
    /\ workFiles = {}
    /\ staged = <<>>

\* mean = ma.array(mean, mask = (num == 0), fill_value = -9999999.) applied to
\* the masked array the writer was given
Remask ==
    /\ pc = "send"
    /\ mean' = MaArray(mean, [c \in Cells |-> num[c] = 0], FillValue)
    /\ pc' = "remasked"
    /\ UNCHANGED swathVars
    /\ UNCHANGED <<script, argv, fs, obsValues, content, dt, cwd, num, fileList, idx,
                   filesUsed, searched, consumed, written, deployed>>

AccNext == Begin \/ ReadFile \/ Mask \/ Write \/ Remask

AccSpec == AccInit /\ [][AccNext]_vars

(***************************************************************************)
(* Notions the properties are stated with.                                 *)
(***************************************************************************)
\* the statement positions at which the gathering of all ranges is over
Gathered == pc \in {"same", "wrap2"}

\* the positions of the wraparound branch
InWrap == pc \in {"wrap1", "wrap2"}

\* the positions after the masking statement
Finalized == pc \in {"write", "send", "done", "remasked"}

\* the (year, day of year) identifiers of one globbed range, in search order
RangeDays(r) ==
    [k \in 1..(r.hi - r.lo + 1) |-> [year |-> ToInt(r.yearC), doy |-> r.lo + k - 1]]

\* all identifiers searched so far, in search order
SearchedDays ==
    IF Len(searched) = 0 THEN <<>>
    ELSE IF Len(searched) = 1 THEN RangeDays(searched[1])
    ELSE RangeDays(searched[1]) \o RangeDays(searched[2])

\* day a lies before day b
Before(a, b) == a.year < b.year \/ (a.year = b.year /\ a.doy < b.doy)

\* number of the day (year y, day of year d) counted from January 1st, 2000
Ordinal(y, d) == 365 * (y - 2000) + Cardinality({k \in 2000..(y - 1) : IsLeapYear(k)}) + d

RECURSIVE JoinNames(_)
\* the names of a list of files joined by ', '
JoinNames(fl) ==
    IF Len(fl) = 0 THEN <<>>
    ELSE IF Len(fl) = 1 THEN fl[1].name
    ELSE JoinNames(SubSeq(fl, 1, Len(fl) - 1)) \o CommaSpace \o fl[Len(fl)].name

\* the files on disk that are the daily files of dtype for the days lo..hi of a year
DailyFiles(year, lo, hi) ==
    {f \in fs : \E d \in lo..hi :
        f = [dir |-> DirOfYear(Str(year)), name |-> DailyName(Prefix(script), year, d, dtype)]}

\* the sequence fl holds exactly the files of the set S, each once
HoldsEachOnce(fl, S) ==
    /\ Len(fl) = Cardinality(S)
    /\ {fl[i] : i \in DOMAIN fl} = S

\* the grids of the files accumulated so far, in the order of accumulation
ConsumedGrids == [i \in DOMAIN consumed |-> content[consumed[i]].grid]

RECURSIVE ExactSum(_, _)
\* the sum, without rounding, of the valid values of cell c over a list of grids
ExactSum(gs, c) ==
    IF Len(gs) = 0 THEN 0
    ELSE ExactSum(SubSeq(gs, 1, Len(gs) - 1), c)
         + (IF IsValid(gs[Len(gs)][c]) THEN gs[Len(gs)][c] ELSE 0)

RECURSIVE AccFold(_)
\* the accumulator after feeding a list of grids, in list order, to the update
AccFold(gs) ==
    IF Len(gs) = 0 THEN [mean |-> [c \in Cells |-> 0], num |-> [c \in Cells |-> 0]]
    ELSE LET a == AccFold(SubSeq(gs, 1, Len(gs) - 1))
         IN  meanVar(a.mean, a.num, gs[Len(gs)])

\* the orders in which n grids can be fed
Perms(n) == {p \in [1..n -> 1..n] : \A i, j \in 1..n : p[i] = p[j] => i = j}

\* a list in the order p
Permuted(gs, p) == [i \in DOMAIN gs |-> gs[p[i]]]

(***************************************************************************)
(* C1.  Interval-based scripts: the (year, day of year) identifiers        *)
(* searched are in chronological order, none twice, and exactly N of them. *)
(* Checked under ResolveSpec; the code violates it.                        *)
(***************************************************************************)
C1_SearchedRange ==
    (script \in IntervalScripts /\ Gathered) =>
        /\ Len(SearchedDays) = interval
        /\ \A i \in 1..(Len(SearchedDays) - 1) : Before(SearchedDays[i], SearchedDays[i + 1])

(***************************************************************************)
(* C2.  Start day equal to end day is a one-day, same-year range in every  *)
(* script: no wraparound, exactly that day of the end year is searched and *)
(* its files are accumulated exactly once.  Checked under Spec; the code   *)
(* violates it.                                                            *)
(***************************************************************************)
C2_OneDayRange ==
    (startDoy = endDoy) =>
        /\ ~InWrap
        /\ pc = "write" =>
              /\ searched = <<[dir |-> dataDir, yearC |-> endyearC,
                               lo |-> endDoy, hi |-> endDoy]>>
              /\ HoldsEachOnce(consumed, DailyFiles(ToInt(endyearC), endDoy, endDoy))

(***************************************************************************)
(* C3.  Interval-based scripts: the start year and the three-digit start   *)
(* day of year are those of the calendar date (N - 1) days before the end  *)
(* day; (2025, 005, 5) gives 2025 and 001, (2025, 003, 5) gives 2024 and   *)
(* 365.  Checked under ResolveSpec.                                        *)
(***************************************************************************)
C3_StartDate ==
    script \in IntervalScripts =>
        /\ Len(startDoyC) = 3
        /\ Len(startYearC) = 4
        /\ startDoy >= 1
        /\ startDoy <= DaysInYear(ToInt(startYearC))
        /\ Ordinal(ToInt(startYearC), startDoy)
              = Ordinal(ToInt(endyearC), endDoy) - (ToInt(argv.arg5) - 1)
        /\ (argv = [endyearC |-> <<2, 0, 2, 5>>, endDoy |-> <<5>>, arg5 |-> <<5>>])
              => (startYearC = <<2, 0, 2, 5>> /\ startDoyC = <<0, 0, 1>>)
        /\ (argv = [endyearC |-> <<2, 0, 2, 5>>, endDoy |-> <<3>>, arg5 |-> <<5>>])
              => (startYearC = <<2, 0, 2, 4>> /\ startDoyC = <<3, 6, 5>>)
        /\ InWrap => (searched[1].yearC = startYearC /\ searched[1].lo = startDoy)

\* the wraparound example of C3 after the first range was gathered
C3_Witness ==
    /\ script \in IntervalScripts
    /\ argv = [endyearC |-> <<2, 0, 2, 5>>, endDoy |-> <<3>>, arg5 |-> <<5>>]
    /\ pc = "wrap1"
    /\ searched[1].yearC = <<2, 0, 2, 4>>
    /\ searched[1].lo = 365

(***************************************************************************)
(* C4.  Explicit-start scripts with start day > end day: the files         *)
(* consumed are those of days start..last day of the year before the end   *)
(* year, from that year's directory and with that year in the pattern,     *)
(* then days 1..end day of the end year.  Checked under Spec; the code     *)
(* violates it.                                                            *)
(***************************************************************************)
C4_MdayWraparound ==
    (script \in MdayScripts /\ startDoy > endDoy /\ pc \in {"wrap1", "wrap2", "write"}) =>
        LET prev == ToInt(endyearC) - 1
        IN  /\ searched[1] = [dir |-> DirOfYear(Str(prev)), yearC |-> Str(prev),
                               lo |-> startDoy, hi |-> DaysInYear(prev)]
            /\ pc = "write" =>
                  /\ Len(searched) = 2
                  /\ searched[2] = [dir |-> dataDir, yearC |-> endyearC,
                                    lo |-> 1, hi |-> endDoy]
                  /\ HoldsEachOnce(consumed,
                        DailyFiles(prev, startDoy, DaysInYear(prev))
                            \cup DailyFiles(ToInt(endyearC), 1, endDoy))

(***************************************************************************)
(* C5.  Wraparound branch of every script: the first sub-range ends on day *)
(* 366 if the start year is a leap year and on day 365 otherwise.  Checked *)
(* under ResolveSpec; the code violates it.                                *)
(***************************************************************************)
C5_LastDayOfStartYear ==
    InWrap => searched[1].hi = (IF IsLeapYear(ToInt(startYearC)) THEN 366 ELSE 365)

\* every file of the ranges gathered so far has been accumulated
AllRead == Gathered /\ idx > Len(fileList)

Accumulates == Len(consumed') = Len(consumed) + 1

\* the grid accumulated by such a step
Accumulated == content'[consumed'[Len(consumed')]].grid

C8_MaskIffZeroCount ==
    /\ [](pc \in {"write", "send", "done"} =>
            /\ mean.fill_value = FillValue
            /\ \A c \in Cells :
                  /\ mean.mask[c] <=> (num[c] = 0)
                  /\ num[c] = 0 => Filled(mean)[c] = FillValue
                  /\ num[c] > 0 => Filled(mean)[c] = mean.data[c])
    /\ [][(pc \in {"same", "wrap2"} /\ pc' = "write") =>
            (mean'.data = mean.data /\ num' = num)]_vars

\* a finalized composite with an empty cell and a cell observed more than once
C8_Witness ==
    /\ pc = "write"
    /\ \E c \in Cells : num[c] = 0 /\ mean.mask[c]
    /\ \E c \in Cells : num[c] >= 2 /\ ~mean.mask[c] /\ mean.data[c] = 4

(***************************************************************************)
(* C9.  Applying the masking statement a second time to the finalized      *)
(* grid and its counts yields the same data, the same mask and the same    *)
(* fill value as the first application.  Checked under AccSpec.            *)
(***************************************************************************)
C9_FinalizeIdempotent ==
    pc = "remasked" =>
        /\ mean.data = written[1].mean.data
        /\ mean.mask = written[1].mean.mask
        /\ mean.fill_value = written[1].mean.fill_value
        /\ Filled(mean) = Filled(written[1].mean)

\* a grid with an empty and a non-empty cell was finalized twice
C9_Witness ==
    /\ pc = "remasked"
    /\ \E c \in Cells : num[c] = 0 /\ mean.mask[c]
    /\ \E c \in Cells : num[c] > 0 /\ ~mean.mask[c]

(***************************************************************************)
(* C10.  In every composite script, after any number of files consumed,    *)
(* the provenance string is the names of the files consumed so far joined  *)
(* by ', ' in the order of consumption, with no leading or trailing        *)
(* separator.  Checked under Spec; the code violates it.                   *)
(***************************************************************************)
C10_Provenance ==
    pc \in {"same", "wrap1", "wrap2", "write", "send"} =>
        /\ filesUsed.bound
        /\ filesUsed.str = JoinNames(consumed)

\* the files the patterns of a searched range match
RangeMatches(r) ==
    GatherSorted(fs, r.dir, Prefix(script), r.yearC, r.lo, r.hi, dtype)

\* some range was searched and no pattern of any searched range matched a file
ZeroMatched ==
    /\ Len(searched) > 0
    /\ \A i \in DOMAIN searched : RangeMatches(searched[i]) = <<>>

(***************************************************************************)
(* C11.  In every composite script and in both branches, a job whose       *)
(* patterns match no file does not fail: it reaches the writer call with   *)
(* an all-zero count grid, a fully masked grid and an empty provenance     *)
(* string.  Checked under Spec; the code violates it.                      *)
(***************************************************************************)
C11_EmptyManifest ==
    ZeroMatched =>
        /\ pc # "error"
        /\ pc = "send" =>
              LET w == written[Len(written)]
              IN  /\ w.num = Zeros
                  /\ \A c \in Cells : w.mean.mask[c]
                  /\ w.filesUsed = <<>>

\* a step in which a daily file turns out not to open or parse
FailsToOpen == \E f \in DOMAIN content' \ DOMAIN content : ~content'[f].ok

(***************************************************************************)
(* C18.  In the composite scripts a daily file that cannot be opened or    *)
(* parsed does not abort the job: the accumulator stays as it was before   *)
(* the file and the loop goes on to the remaining files.  Checked under    *)
(* Spec; the code violates it.                                             *)
(***************************************************************************)
C18_FileErrorContained ==
    [][FailsToOpen => (pc' = pc /\ mean' = mean /\ num' = num /\ idx' = idx + 1)]_vars


(***************************************************************************)
(* The one-day swath scripts (makeChla1daynewMB, makeChla1daynewMW,        *)
(* makeSST1daynewMB, makeSST1daynewMW).                                    *)
(*                                                                         *)
(* A swath job resolves the calendar date of its day, globs the granules   *)
(* of that date (the MB scripts also those of the next date), stages every *)
(* granule it processes in the work directory, opens it, tests its extent  *)
(* and its day_night_flag, filters its pixels into the point cloud of each *)
(* variable, removes the staged copy, and at the end grids, writes and     *)
(* sends each point cloud.                                                 *)
(*                                                                         *)
(* Longitudes and latitudes are whole degrees; geophysical values are      *)
(* tenths of their unit.                                                   *)
(***************************************************************************)
SwathScripts ==
    {"makeChla1daynewMB", "makeChla1daynewMW", "makeSST1daynewMB", "makeSST1daynewMW"}

\* the scripts with a second loop over the granules of the next date
MBSwathScripts == {"makeChla1daynewMB", "makeSST1daynewMB"}

\* the scripts that read the ocean colour granules
OCSwathScripts == {"makeChla1daynewMB", "makeChla1daynewMW"}

\* year = sys.argv[3]
year == argv.endyearC

\* doy = sys.argv[4]
doy == argv.endDoy

\* the lengths of the months of a year
MonthLengths(y) ==
    <<31, IF IsLeapYear(y) THEN 29 ELSE 28, 31, 30, 31, 30, 31, 31, 30, 31, 30, 31>>

RECURSIVE MonthDay(_, _, _)
\* .month and .day of the date that is day j counted from the first of month m
MonthDay(y, m, j) ==
    IF j <= MonthLengths(y)[m] THEN [month |-> m, day |-> j]
    ELSE MonthDay(y, m + 1, j - MonthLengths(y)[m])

\* str(d.month).rjust(2, '0')
MonStr(d) == Rjust(Str(MonthDay(d.year, 1, d.doy).month), 2)

\* str(d.day).rjust(2, '0')
DayStr(d) == Rjust(Str(MonthDay(d.year, 1, d.doy).day), 2)

\* myDate = datetime(int(year), 1, 1) + timedelta(int(doy) - 1)
myDate == DateOfDoy(year, doy)

myMon == MonStr(myDate)

myDay == DayStr(myDate)

\* datadir = datadirBase + year + myMon + '/'
datadir == <<DataRoot, year \o myMon>>

\* myDate1 = myDate + timedelta(days=1)
myDate1 == AddDays(myDate, 1)

\* a next-day year that is always the year of the target day
year1OfTargetDay == year

\* year1 = str(myDate1.year)
year1 == Str(myDate1.year)

myMon1 == MonStr(myDate1)

myDay1 == DayStr(myDate1)

\* datadir1 = datadirBase + year1 + myMon1 + '/'
datadir1 == <<DataRoot, year1 \o myMon1>>

\* 'AQUA_MODIS.'
AquaModis == <<65, 81, 85, 65, 95, 77, 79, 68, 73, 83, 46>>

\* '.L2.OC.NRT.nc' and '.L2.SST.NRT.nc'
SuffixOC == <<46, 76, 2, 46, 79, 67, 46, 78, 82, 84, 46, 110, 99>>
SuffixSST == <<46, 76, 2, 46, 83, 83, 84, 46, 78, 82, 84, 46, 110, 99>>

\* the suffix of the granules a script reads
Suffix(s) == IF s \in OCSwathScripts THEN SuffixOC ELSE SuffixSST

\* myString = 'AQUA_MODIS.' + year + myMon + myDay + '*.L2.OC.NRT.nc', as (head,
\* tail) of the '*'
SwathString(s, yearC, mon, day) ==
    [head |-> AquaModis \o yearC \o mon \o day, tail |-> Suffix(s)]

\* a regular expression character matches: '.' matches any character
ReChar(p, c) == p = 46 \/ p = c

\* the regular expression re matches the string at position pos
ReAt(re, name, pos) ==
    /\ pos + Len(re) - 1 <= Len(name)
    /\ \A i \in DOMAIN re : ReChar(re[i], name[pos + i - 1])

RECURSIVE Lazy(_, _, _, _)
\* the end of the shortest group (.+?) that starts at from and is followed by a
\* match of re; 0 when there is none
Lazy(re, name, from, to) ==
    IF to > Len(name) THEN 0
    ELSE IF ReAt(re, name, to + 1) THEN to
    ELSE Lazy(re, name, from, to + 1)

\* re.search('AQUA_MODIS.(.+?).L2.OC.NRT.nc', fileName).group(1) for a name that
\* begins with the match
Group1(s, name) ==
    LET from == Len(AquaModis) + 1
        to == Lazy(Suffix(s), name, from, from)
    IN  SubSeq(name, from, to)

\* hod = int(datetime.group(1)[9:11])
Hod(s, name) == ToInt(SubSeq(Group1(s, name), 10, 11))


(***************************************************************************)
(* The region of a script and the tests of a granule.                      *)
(***************************************************************************)
\* hour of day that separates the granules of a day from those of the day before
HodCutoff == 10
\* Kd_490 is kept below 6.3
KdMax == 63
\* sst is kept above -2
SstMin == -20
\* a longitude is kept above -400
LonFloor == -400

lonmin == IF script \in MBSwathScripts THEN 120 ELSE 205
lonmax == IF script \in MBSwathScripts THEN 320 ELSE 255
latmin == IF script \in MBSwathScripts THEN -45 ELSE 22
latmax == IF script \in MBSwathScripts THEN 65 ELSE 51

\* longitude[longitude < 0] = longitude[longitude < 0] + 360
To360(lon) == IF lon < 0 THEN lon + 360 ELSE lon

\* np.nanmin and np.nanmax of the selected values
NanMin(S) == CHOOSE x \in S : \A y \in S : x <= y
NanMax(S) == CHOOSE x \in S : \A y \in S : x >= y

\* the longitudes and latitudes of a granule after the conversion
Longitudes(px) == {To360(px[i].lon) : i \in DOMAIN px}
Latitudes(px) == {px[i].lat : i \in DOMAIN px}

dataLonMin(px) == NanMin({x \in Longitudes(px) : x >= 0})
dataLonMax(px) == NanMax({x \in Longitudes(px) : x <= 360})
dataLatMin(px) == NanMin({x \in Latitudes(px) : x >= -90})
dataLatMax(px) == NanMax({x \in Latitudes(px) : x <= 90})

\* an overlap test that only accepts a swath that begins inside the target
GoodInsideOnly(dataMin, dataMax, tmin, tmax) == dataMin >= tmin /\ dataMin <= tmax

\* goodLon1 or goodLon2, goodLat1 or goodLat2
Good(dataMin, dataMax, tmin, tmax) ==
    \/ (dataMin < tmin /\ dataMax >= tmin)
    \/ (dataMin >= tmin /\ dataMin <= tmax)

goodLon(px) == Good(dataLonMin(px), dataLonMax(px), lonmin, lonmax)

goodLat(px) == Good(dataLatMin(px), dataLatMax(px), latmin, latmax)

\* dayNightTest = (rootgrp.day_night_flag == 'Day')
dayNightTest(ds) == ds.day_night_flag = "Day"

\* the condition under which a granule is extracted; makeChla1daynewMW tests
\* goodLon and goodLat only
Extracted(s, ds) ==
    /\ goodLon(ds.pixels)
    /\ goodLat(ds.pixels)
    /\ (s = "makeChla1daynewMW" \/ dayNightTest(ds))

\* the variables a script extracts, in the order it grids them
SwathVariables(s) ==
    IF s = "makeChla1daynewMB" THEN <<"chlor_a">>
    ELSE IF s = "makeChla1daynewMW" THEN <<"chlor_a", "Kd_490", "par", "nflh">>
    ELSE <<"sst">>

\* the quality levels kept: qual_sst < 3 in makeSST1daynewMB, < 2 in makeSST1daynewMW
QualLimit(s) == IF s = "makeSST1daynewMB" THEN 3 ELSE 2

\* filters that keep a Kd_490 of exactly 6.3 and an sst of exactly -2
ValueKeptInclusive(s, var, p) ==
    IF var = "chlor_a" THEN p.chlor_a > 0
    ELSE IF var = "Kd_490" THEN p.Kd_490 <= KdMax /\ p.Kd_490 > 0
    ELSE IF var = "par" THEN p.par > 0
    ELSE IF var = "nflh" THEN p.nflh > 0
    ELSE p.qual_sst < QualLimit(s) /\ p.sst >= SstMin

\* the filters of a variable on the third column, and the quality test
ValueKept(s, var, p) ==
    IF var = "chlor_a" THEN p.chlor_a > 0
    ELSE IF var = "Kd_490" THEN p.Kd_490 < KdMax /\ p.Kd_490 > 0
    ELSE IF var = "par" THEN p.par > 0
    ELSE IF var = "nflh" THEN p.nflh > 0
    ELSE p.qual_sst < QualLimit(s) /\ p.sst > SstMin

\* the filters on the first two columns; the first loop of makeSST1daynewMB has
\* no test of the latitude against latmin
PositionKept(s, loop, lon, lat) ==
    /\ lon > LonFloor
    /\ lon >= lonmin
    /\ lon <= lonmax
    /\ (s = "makeSST1daynewMB" /\ loop = "loop1") \/ lat >= latmin
    /\ lat <= latmax

\* the row (lon, lat, value) of a pixel in dataOut
Row(var, p) == <<To360(p.lon), p.lat, p[var]>>

RECURSIVE DataOut(_, _, _, _)
\* dataOut after the filters: the rows of the pixels that pass, in pixel order
DataOut(s, loop, var, px) ==
    IF Len(px) = 0 THEN <<>>
    ELSE LET p == px[1]
             kept == /\ ValueKept(s, var, p)
                     /\ PositionKept(s, loop, To360(p.lon), p.lat)
         IN  (IF kept THEN <<Row(var, p)>> ELSE <<>>) \o DataOut(s, loop, var, Tail(px))


\* fileOut = sensor + year + doy + '_' + year + doy + '_' + dtype + '.grd'
SwathSensor(s) == IF s \in MBSwathScripts THEN PrefixMB ELSE PrefixMW

\* the data type a script names its k-th output with
SwathDtype(s, k) ==
    IF s \in OCSwathScripts THEN <<DtChla, DtK490, DtPar0, DtCflh>>[k] ELSE DtSstd

\* '.grd'
ExtGrd == <<46, 103, 114, 100>>

fileOut == SwathSensor(script) \o year \o doy \o Underscore \o year \o doy \o Underscore
               \o SwathDtype(script, dt) \o ExtGrd

\* the name grd2netcdf1 returns for fileOut: '.grd' replaced by '.nc'
ncFile == SubSeq(fileOut, 1, Len(fileOut) - Len(ExtGrd)) \o ExtNc

\* the directory of the k-th send_to_servers call of a script; makeChla1daynewMW
\* sends par0 and cflh to '/MW/k490/'
SwathRemoteDir(s, k) ==
    IF s = "makeChla1daynewMW"
    THEN <<47>> \o PrefixMW \o <<47>> \o (IF k = 1 THEN DtChla ELSE DtK490) \o <<47>>
    ELSE <<47>> \o SwathSensor(s) \o <<47>> \o SwathDtype(s, 1) \o <<47>>

\* the loop a script ends its extraction with
LastLoop(s) == IF s \in MBSwathScripts THEN "loop2" ELSE "loop1"

\* the directory the current loop reads from
LoopDir == IF pc = "loop2" THEN datadir1 ELSE datadir

\* an open that lets the IOError end the job
IOErrorUncaught(loop) == "error"

\* except IOError: print("bad file " + fileName); continue -- the job stays in
\* its loop
IOErrorCaught(loop) == loop

\* an accumulation that puts the rows of the granule in front of the cloud
ConcatenateInFront(cloud, dataOut) == dataOut \o cloud

\* if (dataOut.shape[0] > 0): temp_data = dataOut when temp_data is None, else
\* np.concatenate((temp_data, dataOut), axis=0)
Concatenate(cloud, dataOut) ==
    IF Len(dataOut) = 0 THEN cloud
    ELSE IF cloud = <<>> THEN dataOut
    ELSE cloud \o dataOut

\* an hour test that takes the granules of hour 10 in the first loop as well
SelectedFromTen(name) ==
    \/ script \notin MBSwathScripts
    \/ pc = "loop1" /\ Hod(script, name) >= HodCutoff
    \/ pc = "loop2" /\ Hod(script, name) <= HodCutoff

\* whether the current loop processes the granule: the MB scripts take hod > 10
\* in the first loop and hod <= 10 in the second, the MW scripts take every one
Selected(name) ==
    \/ script \notin MBSwathScripts
    \/ pc = "loop1" /\ Hod(script, name) > HodCutoff
    \/ pc = "loop2" /\ Hod(script, name) <= HodCutoff


(***************************************************************************)
(* The steps of a swath job.                                               *)
(***************************************************************************)
\* from the start to the first loop: the granules of the date are globbed and
\* sorted, the work directory is cleared, filesUsed = "" and temp_data = None
\* (the empty sequence stands for None: no empty array is ever assigned)
Discover ==
    /\ pc = "start"
    /\ fileList' = SortNames(Glob(fs, datadir, SwathString(script, year, myMon, myDay)))
    /\ idx' = 1
    /\ workFiles' = {}
    /\ filesUsed' = [bound |-> TRUE, str |-> <<>>]
    /\ temp_data' = [k \in DOMAIN SwathVariables(script) |-> <<>>]
    /\ pc' = "loop1"
    /\ UNCHANGED <<script, argv, fs, obsValues, content, dt, cwd, mean, num, searched,
                   consumed, written, deployed, staged>>

\* one iteration of a granule loop: the hour test, shutil.copyfile, Dataset in
\* try/except IOError with continue, the extent and day/night tests, the
\* provenance, the filters and the append for every variable, rootgrp.close()
\* and the removal of the staged copy
Swath ==
    /\ pc \in {"loop1", "loop2"}
    /\ idx <= Len(fileList)
    /\ LET fName == fileList[idx]
           ds == content[[dir |-> LoopDir, name |-> fName]]
       IN  IF ~Selected(fName)
           THEN UNCHANGED <<workFiles, staged, filesUsed, temp_data, pc>>
           ELSE /\ staged' = Append(staged, fName)
                /\ IF ~ds.ok
                   THEN /\ workFiles' = workFiles \cup {fName}
                        /\ pc' = IOErrorCaught(pc)
                        /\ UNCHANGED <<filesUsed, temp_data>>
                   ELSE /\ workFiles' = (workFiles \cup {fName}) \ {fName}
                        /\ pc' = pc
                        /\ IF Extracted(script, ds)
                           THEN /\ filesUsed' =
                                      [bound |-> TRUE,
                                       str |-> IF Len(filesUsed.str) = 0 THEN fName
                                               ELSE filesUsed.str \o CommaSpace \o fName]
                                /\ temp_data' =
                                      [k \in DOMAIN temp_data |->
                                          Concatenate(temp_data[k], DataOut(script, pc,
                                              SwathVariables(script)[k], ds.pixels))]
                           ELSE UNCHANGED <<filesUsed, temp_data>>
    /\ idx' = idx + 1
    /\ UNCHANGED <<script, argv, fs, obsValues, content, dt, cwd, mean, num, fileList,
                   searched, consumed, written, deployed>>

\* between the loops of an MB script: the granules of the next date are globbed
\* in datadir1 and sorted
NextDay ==
    /\ script \in MBSwathScripts
    /\ pc = "loop1"
    /\ idx > Len(fileList)
    /\ fileList' = SortNames(Glob(fs, datadir1, SwathString(script, year1, myMon1, myDay1)))
    /\ idx' = 1
    /\ pc' = "loop2"
    /\ UNCHANGED swathVars
    /\ UNCHANGED <<script, argv, fs, obsValues, content, dt, cwd, mean, num, filesUsed,
                   searched, consumed, written, deployed>>

\* pygmt.xyz2grd / pygmt.nearneighbor of the point cloud of the current variable,
\* which raises when data is None, and grd2netcdf1 of the grid
Grid ==
    /\ \/ pc = LastLoop(script) /\ idx > Len(fileList)
       \/ pc = "grid"
    /\ IF temp_data[dt] = <<>>
       THEN /\ pc' = "error"
            /\ UNCHANGED written
       ELSE /\ written' = Append(written, [fileOut |-> fileOut, filesUsed |-> filesUsed.str,
                                           data |-> temp_data[dt]])
            /\ pc' = "deploy"
    /\ UNCHANGED swathVars
    /\ UNCHANGED <<script, argv, fs, obsValues, content, dt, cwd, mean, num, fileList, idx,
                   filesUsed, searched, consumed, deployed>>

\* send_to_servers(ncFile, remote_dir, '1') and os.remove(ncFile), then the next
\* variable
Deploy ==
    /\ pc = "deploy"
    /\ deployed' = Append(deployed, [ncFile |-> ncFile,
                                     remote_dir |-> SwathRemoteDir(script, dt),
                                     interval_flag |-> <<1>>])
    /\ IF dt < Len(SwathVariables(script))
       THEN dt' = dt + 1 /\ pc' = "grid"
       ELSE dt' = dt /\ pc' = "done"
    /\ UNCHANGED swathVars
    /\ UNCHANGED <<script, argv, fs, obsValues, content, cwd, mean, num, fileList, idx,
                   filesUsed, searched, consumed, written>>

SwathNext == Discover \/ Swath \/ NextDay \/ Grid \/ Deploy


(***************************************************************************)
(* The inputs of a swath job.                                              *)
(***************************************************************************)
\* name of the granule of a date that begins at hour hh:
\* AQUA_MODIS.<YYYY><MM><DD>T<hh>0000.L2.OC.NRT.nc
GranuleName(s, d, hh) ==
    AquaModis \o Str(d.year) \o MonStr(d) \o DayStr(d) \o <<84>> \o Rjust(Str(hh), 2)
        \o <<0, 0, 0, 0>> \o Suffix(s)

\* the granule in the directory of its month
Granule(s, d, hh) ==
    [dir |-> <<DataRoot, Str(d.year) \o MonStr(d)>>, name |-> GranuleName(s, d, hh)]

\* the pixels of an ocean colour granule: a reference pixel inside both regions
\* with valid values, pixels south, north and east of the regions, and pixels
\* whose values lie on or beyond the validity limits
PixelsOC ==
    {[lon |-> x, lat |-> 30, chlor_a |-> 5, Kd_490 |-> 5, par |-> 5, nflh |-> 5] :
        x \in {-120, -10}}
    \cup {[lon |-> -120, lat |-> y, chlor_a |-> 5, Kd_490 |-> 5, par |-> 5, nflh |-> 5] :
        y \in {-50, 70}}
    \cup {[lon |-> -120, lat |-> 30, chlor_a |-> 0, Kd_490 |-> KdMax, par |-> 0, nflh |-> 0],
          [lon |-> -120, lat |-> 30, chlor_a |-> 5, Kd_490 |-> 0, par |-> -5, nflh |-> -5]}

\* the pixels of an SST granule, in the same positions, with the quality levels
\* 1, 2 and 3 and a value on the validity limit
PixelsSST ==
    {[lon |-> x, lat |-> 30, sst |-> 100, qual_sst |-> 1] : x \in {-120, -10}}
    \cup {[lon |-> -120, lat |-> y, sst |-> 100, qual_sst |-> 1] : y \in {-50, 70}}
    \cup {[lon |-> -120, lat |-> 30, sst |-> 100, qual_sst |-> q] : q \in {2, 3}}
    \cup {[lon |-> -120, lat |-> 30, sst |-> SstMin, qual_sst |-> 1]}

Pixels(s) == IF s \in OCSwathScripts THEN PixelsOC ELSE PixelsSST

\* the reference pixel
RefPixel(s) ==
    IF s \in OCSwathScripts
    THEN [lon |-> -120, lat |-> 30, chlor_a |-> 5, Kd_490 |-> 5, par |-> 5, nflh |-> 5]
    ELSE [lon |-> -120, lat |-> 30, sst |-> 100, qual_sst |-> 1]

\* a swath of one pixel, or of the reference pixel and one more
PixelLists(s) ==
    {<<p>> : p \in Pixels(s)} \cup {<<RefPixel(s), p>> : p \in Pixels(s) \ {RefPixel(s)}}

\* a granule that cannot be opened
Unreadable == [ok |-> FALSE, day_night_flag |-> "Day", pixels |-> <<>>]

\* what Dataset(fileName, 'r') may give for a staged granule
GranuleOutcomes(s) ==
    {[ok |-> TRUE, day_night_flag |-> f, pixels |-> px] :
        f \in {"Day", "Night"}, px \in PixelLists(s)}
    \cup {Unreadable}

\* the part of the state a swath job does not use
CompositeIdle ==
    /\ obsValues = {}
    /\ cwd = <<>>
    /\ mean = [data |-> Zeros]
    /\ num = Zeros
    /\ searched = <<>>
    /\ consumed = <<>>

\* the state of a swath job before its first statement
SwathStart ==
    /\ pc = "start"
    /\ dt = 1
    /\ fileList = <<>>
    /\ idx = 1
    /\ filesUsed = [bound |-> FALSE, str |-> <<>>]
    /\ written = <<>>
    /\ deployed = <<>>
    /\ temp_data = <<>>
    /\ workFiles = {}
    /\ staged = <<>>

\* the granules that may be present for the job of March 23rd, 2025: two of the
\* day after 10 h and one of the next day before 10 h
SwathCandidates(s) ==
    {Granule(s, [year |-> 2025, doy |-> 82], 11),
     Granule(s, [year |-> 2025, doy |-> 82], 12),
     Granule(s, [year |-> 2025, doy |-> 83], 9)}

SwathInit ==
    /\ script \in SwathScripts
    /\ argv = [endyearC |-> Str(2025), endDoy |-> Rjust(Str(82), DoyWidth), arg5 |-> <<>>]
    /\ fs \in SubsetsUpTo(SwathCandidates(script), MaxGranules)
    /\ content \in [fs -> GranuleOutcomes(script)]
    /\ CompositeIdle
    /\ SwathStart

SwathSpec == SwathInit /\ [][SwathNext]_vars


(***************************************************************************)
(* The region test on its own: one daytime granule of two valid pixels     *)
(* whose positions lie on, next to and away from the edges of the region.  *)
(***************************************************************************)
\* the longitude as the granule stores it, in -180 .. 180
RawLon(x) == IF x > 180 THEN x - 360 ELSE x

\* the longitudes (0-360) and latitudes of the pixels, relative to the region
RegionLons(s) ==
    LET lo == IF s \in MBSwathScripts THEN 120 ELSE 205
        hi == IF s \in MBSwathScripts THEN 320 ELSE 255
    IN  {lo - 10, lo - 1, lo, hi - 1, hi, hi + 1, hi + 10}

RegionLats(s) ==
    LET lo == IF s \in MBSwathScripts THEN -45 ELSE 22
        hi == IF s \in MBSwathScripts THEN 65 ELSE 51
    IN  {lo - 10, lo - 1, lo, hi, hi + 1}

\* the reference pixel moved to a position
PixelAt(s, x, y) == [RefPixel(s) EXCEPT !.lon = RawLon(x), !.lat = y]

RegionInit ==
    /\ script \in SwathScripts
    /\ argv = [endyearC |-> Str(2025), endDoy |-> Rjust(Str(82), DoyWidth), arg5 |-> <<>>]
    /\ fs = {Granule(script, [year |-> 2025, doy |-> 82], 12)}
    /\ \E x1 \in RegionLons(script), x2 \in RegionLons(script),
          y1 \in RegionLats(script), y2 \in RegionLats(script) :
          content = [f \in fs |->
                        [ok |-> TRUE, day_night_flag |-> "Day",
                         pixels |-> <<PixelAt(script, x1, y1), PixelAt(script, x2, y2)>>]]
    /\ CompositeIdle
    /\ SwathStart

RegionSpec == RegionInit /\ [][SwathNext]_vars

(***************************************************************************)
(* Notions the properties of the swath jobs are stated with.               *)
(***************************************************************************)
\* the closed intervals [a, b] and [c, d] of whole numbers have a common point
Intersects(a, b, c, d) == \E x \in a..b : c <= x /\ x <= d

\* the step is an iteration of a granule loop that stages its granule
Stages == staged' # staged

\* the granule the iteration is about, and what Dataset gives for it
Current == fileList[idx]
CurrentDs == content[[dir |-> LoopDir, name |-> Current]]

\* the step adds its granule to the provenance
AddsProvenance == filesUsed'.str # filesUsed.str

\* the step adds rows to a point cloud
AddsRows == temp_data' # temp_data

\* C12: in every swath script the test of an axis passes for a swath [min, max],
\* min <= max, exactly when [min, max] and [targetMin, targetMax] have a common
\* point, and a readable daytime granule is extracted exactly when both axes
\* pass.  A swath [319, 321] passes against [120, 320], a swath [321, 330] does
\* not.  Checked under RegionSpec.
C12_RegionTest ==
    /\ [](\A f \in DOMAIN content :
            LET px == content[f].pixels
            IN  /\ goodLon(px) <=> Intersects(dataLonMin(px), dataLonMax(px), lonmin, lonmax)
                /\ goodLat(px) <=> Intersects(dataLatMin(px), dataLatMax(px), latmin, latmax)
                /\ Good(319, 321, 120, 320)
                /\ ~Good(321, 330, 120, 320))
    /\ [][Stages =>
            LET px == CurrentDs.pixels
            IN  AddsProvenance <=>
                   /\ Intersects(dataLonMin(px), dataLonMax(px), lonmin, lonmax)
                   /\ Intersects(dataLatMin(px), dataLatMax(px), latmin, latmax)]_vars

\* a granule that spans the longitudes 319 .. 321 was extracted by an MB script
C12_Witness ==
    /\ script \in MBSwathScripts
    /\ pc = "loop2"
    /\ Len(staged) = 1
    /\ filesUsed.str = staged[1]
    /\ \E f \in DOMAIN content :
          /\ dataLonMin(content[f].pixels) = 319
          /\ dataLonMax(content[f].pixels) = 321


\* C13: in every swath script a granule whose day_night_flag is not 'Day' adds no
\* row to any point cloud and is not added to the provenance.  Checked under
\* SwathSpec; makeChla1daynewMW violates it.
C13_NightGranuleIgnored ==
    [][(Stages /\ CurrentDs.ok /\ CurrentDs.day_night_flag # "Day")
          => (~AddsRows /\ ~AddsProvenance)]_vars


\* the rows of all point clouds of the job
AllRows == UNION {{temp_data[k][i] : i \in DOMAIN temp_data[k]} : k \in DOMAIN temp_data}

\* C14: in every swath script every row of a point cloud satisfies
\* lonmin <= lon <= lonmax and latmin <= lat <= latmax, the longitude being on
\* the 0-360 convention.  Checked under SwathSpec; makeSST1daynewMB violates it.
C14_RowsInsideRegion ==
    \A r \in AllRows :
        /\ 0 <= r[1] /\ r[1] <= 360
        /\ lonmin <= r[1] /\ r[1] <= lonmax
        /\ latmin <= r[2] /\ r[2] <= latmax


\* the validity predicate of a variable: chlor-a, PAR and FLH above 0, Kd490
\* between 0 and 6.3, SST above -2 with a quality level below 3 (MB) or 2 (MW)
Valid(var, p) ==
    IF var = "chlor_a" THEN p.chlor_a > 0
    ELSE IF var = "Kd_490" THEN 0 < p.Kd_490 /\ p.Kd_490 < 63
    ELSE IF var = "par" THEN p.par > 0
    ELSE IF var = "nflh" THEN p.nflh > 0
    ELSE /\ p.sst > -20
         /\ p.qual_sst < (IF script \in MBSwathScripts THEN 3 ELSE 2)

\* the rows a step appended to the k-th point cloud
NewRows(k) == SubSeq(temp_data'[k], Len(temp_data[k]) + 1, Len(temp_data'[k]))

\* C15: the rows a swath script accepts satisfy the validity predicate of their
\* variable: every row an iteration appends is the row of a valid pixel of its
\* granule, and no more rows are appended than the granule has valid pixels.
\* Checked under SwathSpec.
C15_AcceptedRowsValid ==
    [][Stages =>
         \A k \in DOMAIN temp_data :
            LET var == SwathVariables(script)[k]
                px == CurrentDs.pixels
                valid == {i \in DOMAIN px : Valid(var, px[i])}
            IN  /\ \A j \in DOMAIN NewRows(k) :
                      \E i \in valid : NewRows(k)[j] = Row(var, px[i])
                /\ Len(NewRows(k)) <= Cardinality(valid)]_vars

\* makeSST1daynewMW has finished a job whose only granule held a valid pixel and
\* a pixel of quality level 2, and its point cloud has one row
C15_Witness ==
    /\ script = "makeSST1daynewMW"
    /\ pc = "done"
    /\ Len(temp_data[1]) = 1
    /\ \E f \in DOMAIN content :
          /\ Len(staged) = 1 /\ staged[1] = f.name
          /\ Len(content[f].pixels) = 2
          /\ content[f].pixels[2].qual_sst = 2


RECURSIVE SelectedOf(_, _, _)
\* the granules of a sorted list that a loop takes, by the hour in their names:
\* characters 21 and 22 of AQUA_MODIS.<YYYYMMDD>T<hhmmss>
SelectedOf(s, loop, fl) ==
    IF Len(fl) = 0 THEN <<>>
    ELSE LET hh == 10 * fl[1][21] + fl[1][22]
             takes == \/ s \notin MBSwathScripts
                      \/ loop = "loop1" /\ hh > 10
                      \/ loop = "loop2" /\ hh <= 10
         IN  (IF takes THEN <<fl[1]>> ELSE <<>>) \o SelectedOf(s, loop, Tail(fl))

\* C16: in the swath scripts a staged granule that cannot be opened does not
\* end the job: the iteration leaves the point clouds and the provenance as they
\* were and the loop goes on, and when a loop is over every granule it takes has
\* been staged, those after the unreadable one included.  Checked under
\* SwathSpec.
C16_UnreadableGranuleSkipped ==
    /\ [][(Stages /\ ~CurrentDs.ok)
             => (pc' = pc /\ idx' = idx + 1 /\ ~AddsRows /\ ~AddsProvenance)]_vars
    /\ []((pc = "loop1" /\ idx > Len(fileList))
             => staged = SelectedOf(script, "loop1", fileList))

\* an unreadable granule was staged first, the next granule was staged after it
\* and is the only one in the provenance
C16_Witness ==
    /\ Len(staged) = 2
    /\ \E f \in DOMAIN content : f.name = staged[1] /\ ~content[f].ok
    /\ filesUsed.str = staged[2]
    /\ AllRows # {}


\* C17: in the swath scripts every staged granule is removed from the work
\* directory before the next one is staged, whether it could be opened or not,
\* and none remains when a loop is over.  Checked under SwathSpec; the code
\* violates it.
C17_StagedGranuleRemoved ==
    /\ [][Stages => workFiles = {}]_vars
    /\ []((pc \in {"loop1", "loop2"} /\ idx > Len(fileList)) => workFiles = {})


\* the remote directory '/MW/<param>/' of the k-th variable of makeChla1daynewMW
ParamDir(k) == <<47>> \o PrefixMW \o <<47>> \o <<DtChla, DtK490, DtPar0, DtCflh>>[k] \o <<47>>

\* C19: a completed makeChla1daynewMW job has deployed exactly one artifact per
\* variable (chla, k490, par0, cflh), each to its own directory /MW/<param>/, and
\* no remote directory has received more than one.  Checked under SwathSpec; the
\* code violates it.
C19_OneArtifactPerDirectory ==
    (script = "makeChla1daynewMW" /\ pc = "done") =>
        /\ Len(deployed) = 4
        /\ \A k \in 1..4 : deployed[k].remote_dir = ParamDir(k)
        /\ \A j \in 1..4, k \in 1..4 :
              j # k => deployed[j].remote_dir # deployed[k].remote_dir


(***************************************************************************)
(* The day window on its own: MB jobs for days at the ends of months and   *)
(* years, with granules of the day before, the day, the next day and the   *)
(* day after it, at the hours around the cutoff and at the ends of a day.  *)
(***************************************************************************)
\* the target days: January 31st, the last days of February and of the year, in
\* a common year and in a leap year
WindowDays ==
    {[year |-> 2025, doy |-> 31], [year |-> 2025, doy |-> 59], [year |-> 2025, doy |-> 365],
     [year |-> 2024, doy |-> 59], [year |-> 2024, doy |-> 60], [year |-> 2024, doy |-> 366]}

\* the offsets of the dates of the granules from the target day
WindowOffsets == {-1, 0, 1, 2}

\* the hours of the granules
WindowHours == {0, 10, 11, 23}

\* the granules that may be present for the job of target day d
WindowCandidates(s, d) ==
    {Granule(s, AddDays(d, k), hh) : k \in WindowOffsets, hh \in WindowHours}

WindowInit ==
    /\ script \in MBSwathScripts
    /\ \E d \in WindowDays :
          /\ argv = [endyearC |-> Str(d.year), endDoy |-> Rjust(Str(d.doy), DoyWidth),
                     arg5 |-> <<>>]
          /\ fs \in SubsetsUpTo(WindowCandidates(script, d), MaxGranules)
    /\ content \in [fs -> {[ok |-> TRUE, day_night_flag |-> "Day",
                            pixels |-> <<RefPixel(script)>>], Unreadable}]
    /\ CompositeIdle
    /\ SwathStart

WindowSpec == WindowInit /\ [][SwathNext]_vars

\* both loops of the job are over
ExtractionOver ==
    \/ pc \in {"grid", "deploy", "done", "error"}
    \/ pc = LastLoop(script) /\ idx > Len(fileList)

\* the hour, counted from January 1st 2000, at which a granule of date d and hour
\* hh begins
HourStamp(d, hh) == 24 * Ordinal(d.year, d.doy) + hh

\* the names of the staged granules
StagedNames == {staged[i] : i \in DOMAIN staged}

\* C20: an MB one-day swath script run for target day D stages and processes a
\* granule exactly when it is dated D with an hour above 10 or dated D + 1 with
\* an hour of at most 10: the granules of one contiguous window of 24 hours
\* with the same cutoff on both sides.  Checked under WindowSpec.
C20_DayWindow ==
    (script \in MBSwathScripts /\ ExtractionOver) =>
        \A k \in WindowOffsets, hh \in WindowHours :
            LET d == AddDays([year |-> ToInt(year), doy |-> ToInt(doy)], k)
                g == Granule(script, d, hh)
                target == Ordinal(ToInt(year), ToInt(doy))
            IN  g \in fs =>
                   (g.name \in StagedNames <=>
                       /\ 24 * target + 10 < HourStamp(d, hh)
                       /\ HourStamp(d, hh) <= 24 * (target + 1) + 10)

\* the job of December 31st, 2025 has staged the granule of 23 h of that day and
\* then the granule of 10 h of January 1st, 2026
C20_Witness ==
    /\ script \in MBSwathScripts
    /\ ExtractionOver
    /\ year = Str(2025) /\ doy = Str(365)
    /\ staged = <<GranuleName(script, [year |-> 2025, doy |-> 365], 23),
                  GranuleName(script, [year |-> 2026, doy |-> 1], 10)>>

(***************************************************************************)
(* Further properties of the composite scripts.                            *)
(***************************************************************************)
\* the name <prefix><year><doy>_<year><doy>_<suffix>.nc of the range from day a
\* to day b, the days of year zero-padded to three digits
RangeName(a, b) ==
    Prefix(script) \o Str(a.year) \o Rjust(Str(a.doy), 3) \o <<95>>
        \o Str(b.year) \o Rjust(Str(b.doy), 3) \o <<95>> \o dtype \o <<46, 110, 99>>

\* C21: in every composite script the output file name is
\* <prefix><startYear><startDoy>_<endYear><endDoy>_<suffix>.nc, made of the year
\* and zero-padded day of year of the first day and of the last day of the range
\* whose files were searched, in the same-year and in the wraparound branch.
\* Checked under ResolveSpec; the code violates it.
C21_OutputName ==
    Gathered => outFile = RangeName(SearchedDays[1], SearchedDays[Len(SearchedDays)])

\* the job is at a statement that reads filesUsed: the test len(filesUsed) of a
\* loop iteration, or the call of the writer
ReadsFilesUsed ==
    \/ pc \in {"same", "wrap1", "wrap2"} /\ idx <= Len(fileList)
    \/ pc = "write"

\* C22: in every composite script and in every branch the provenance string has
\* been initialised before it is first read, whether the first sub-range matches
\* files or not.  Checked under Spec; the code violates it.
C22_ProvenanceInitialised ==
    ReadsFilesUsed => filesUsed.bound

\* the composite length N of an interval script lies in 2 .. 365
UsualLength == script \in IntervalScripts /\ ToInt(argv.arg5) \in 2..365

\* C23: in the interval-based composite scripts, for every end day and every
\* composite length N with 2 <= N <= 365, the same-year branch is taken exactly
\* when the computed start year equals the end year; otherwise the wraparound
\* branch is taken and the start year is the end year - 1.  Checked under
\* ResolveSpec.
C23_BranchIffSameYear ==
    (UsualLength /\ pc # "start") =>
        /\ pc = "same" <=> ToInt(startYearC) = ToInt(endyearC)
        /\ pc # "same" => (InWrap /\ ToInt(startYearC) = ToInt(endyearC) - 1)

\* a composite of 365 days that ends on day 364 of 2024 has taken the wraparound
\* branch and searched from day 365 of 2023 on
C23_Witness ==
    /\ UsualLength
    /\ ToInt(argv.arg5) = 365
    /\ endyearC = Str(2024)
    /\ endDoy = 364
    /\ pc = "wrap2"
    /\ searched[1].yearC = Str(2023)
    /\ searched[1].lo = 365

\* the days of year of a searched range that name a day of the calendar
RealDoys(r) == {d \in r.lo..r.hi : d >= 1 /\ d <= DaysInYear(ToInt(r.yearC))}

\* the numbers, counted from January 1st 2000, of the calendar days of a range
RealOrdinals(r) ==
    LET base == Ordinal(ToInt(r.yearC), 0)
    IN  {base + d : d \in RealDoys(r)}

\* C24: in the interval-based composite scripts, for every end day and every N
\* with 2 <= N <= 365, the calendar days among the (year, day of year) patterns
\* searched are exactly the N consecutive calendar days that end at the end day;
\* the only other pattern ever searched is day 366 of a start year that is not a
\* leap year.  Checked under ResolveSpec.
C24_CalendarDays ==
    (UsualLength /\ Gathered) =>
        LET last == Ordinal(ToInt(endyearC), endDoy)
        IN  /\ UNION {RealOrdinals(searched[i]) : i \in DOMAIN searched}
                  = (last - ToInt(argv.arg5) + 1)..last
            /\ \A i \in DOMAIN searched :
                  \A d \in (searched[i].lo..searched[i].hi) \ RealDoys(searched[i]) :
                      /\ d = 366
                      /\ searched[i].yearC = startYearC
                      /\ startYearC # endyearC
                      /\ ~IsLeapYear(ToInt(startYearC))

\* a composite of two days that ends on the first day of 2024 has searched days
\* 365 and 366 of 2023 and day 1 of 2024
C24_Witness ==
    /\ UsualLength
    /\ pc = "wrap2"
    /\ argv = [endyearC |-> Str(2024), endDoy |-> Str(1), arg5 |-> Str(2)]
    /\ searched = <<[dir |-> dataDir1, yearC |-> Str(2023), lo |-> 365, hi |-> 366],
                    [dir |-> dataDir, yearC |-> Str(2024), lo |-> 1, hi |-> 1]>>

\* the day a daily file is named after: <prefix:2><year:4><doy:3>_...
FileDay(f) == [year |-> ToInt(SubSeq(f.name, 3, 6)), doy |-> ToInt(SubSeq(f.name, 7, 9))]

\* file f comes before file g in the global order: day ascending, then by name
InGlobalOrder(f, g) ==
    \/ Before(FileDay(f), FileDay(g))
    \/ FileDay(f) = FileDay(g) /\ (f.name = g.name \/ LexLess(f.name, g.name))

\* C25: in every composite script the files are consumed in global order, day
\* ascending and then by name within a day: of two files consumed, the one
\* consumed first is not of a later day, nor a later name of the same day.
\* Checked under Spec; the code violates it.
C25_GlobalOrder ==
    \A i, j \in DOMAIN consumed : i < j => InGlobalOrder(consumed[i], consumed[j])

(***************************************************************************)
(* Further properties of the jobs as a whole.                              *)
(***************************************************************************)
\* C26: if a job terminates with a fatal error, no artifact of that job has
\* been deployed before the failure: every send_to_servers call comes after all
\* steps of the job that can fail fatally.  Checked under SwathSpec; the code
\* violates it.
C26_NoDeployBeforeFailure ==
    pc = "error" => deployed = <<>>

\* the number of days from the start day to the end day of an mday job; a start
\* day after the end day is a day of the year before
MdayLength ==
    IF startDoy <= endDoy THEN endDoy - startDoy + 1
    ELSE DaysInYear(ToInt(endyearC) - 1) - startDoy + 1 + endDoy

\* C27: in the mday scripts the interval handed to the writer is the number of
\* days of the composite range, for every pair of start and end day, a start day
\* after the end day included; it is never zero or negative.  Checked under
\* Spec; the code violates it.
C27_MdayInterval ==
    script \in MdayScripts =>
        \A i \in DOMAIN written :
            /\ written[i].interval = MdayLength
            /\ written[i].interval >= 1

\* the target day of the one-day job a granule of date d and hour hh belongs to:
\* the day itself after the cutoff hour, the day before up to the cutoff hour
OwnerDay(d, hh) == IF hh > HodCutoff THEN d ELSE AddDays(d, -1)

\* how many times a granule has been staged
TimesStaged(name) == Cardinality({i \in DOMAIN staged : staged[i] = name})

\* C28: across the MB one-day swath jobs of consecutive target days every granule
\* of date X and hour h falls in the window of exactly one job, the job of day X
\* when h > 10 and the job of day X - 1 when h <= 10, also when X - 1 and X lie
\* in different months or years: the job of a target day takes, once, each
\* granule present that belongs to its day, and none that belongs to the job of
\* the day before, of the next day or of the day after.  Checked under WindowSpec.
C28_OneJobPerGranule ==
    (script \in MBSwathScripts /\ ExtractionOver) =>
        \A k \in WindowOffsets, hh \in WindowHours :
            LET d == AddDays(myDate, k)
                g == Granule(script, d, hh)
            IN  g \in fs =>
                   TimesStaged(g.name) = IF OwnerDay(d, hh) = myDate THEN 1 ELSE 0

\* the job of January 31st, 2025 has found the granules of 10 h of that day and
\* of February 1st: it has left the first to the job of January 30th and has
\* taken the second
C28_Witness ==
    /\ script \in MBSwathScripts
    /\ ExtractionOver
    /\ myDate = [year |-> 2025, doy |-> 31]
    /\ fs = {Granule(script, [year |-> 2025, doy |-> 31], 10),
             Granule(script, [year |-> 2025, doy |-> 32], 10)}
    /\ staged = <<GranuleName(script, [year |-> 2025, doy |-> 32], 10)>>

\* the composite scripts that make one artifact per variable of a list
MultiVariableScripts == {"CompMWChla", "CompMWChlamday"}

\* the position before the first file of a variable is read
AccumulationStart == pc \in {"same", "wrap1"} /\ idx = 1

\* the file is a daily file of the variable of the current iteration
OfCurrentDtype(f) ==
    SubSeq(f.name, Len(f.name) - Len(dtype \o ExtNc) + 1, Len(f.name)) = dtype \o ExtNc

\* the artifact written last
LastWritten == written[Len(written)]

\* C29: in the multi-variable composite scripts, at the start of the accumulation
\* of each variable the sum grid and the count grid are all zero and the
\* provenance string is empty, so that the artifact written for a variable holds
\* the sums, counts and names of the files of that variable that were read in
\* its iteration and nothing of a variable processed before.  Checked under Spec.
C29_FreshPerVariable ==
    script \in MultiVariableScripts =>
        /\ AccumulationStart =>
              /\ mean = [data |-> [c \in Cells |-> 0]]
              /\ num = [c \in Cells |-> 0]
              /\ filesUsed = [bound |-> TRUE, str |-> <<>>]
        /\ pc = "send" =>
              /\ \A i \in DOMAIN consumed : OfCurrentDtype(consumed[i])
              /\ LastWritten.mean.data = AccFold(ConsumedGrids).mean
              /\ LastWritten.num = AccFold(ConsumedGrids).num
              /\ LastWritten.filesUsed = JoinNames(consumed)

\* the second variable of a job across the year boundary has been written from
\* its one file, after the artifact of the first variable was written from a file
\* with data
C29_Witness ==
    /\ script \in MultiVariableScripts
    /\ dt = 2
    /\ pc = "send"
    /\ Len(searched) = 2
    /\ ToInt(startYearC) = ToInt(endyearC) - 1
    /\ Len(written) = 2
    /\ Len(consumed) = 1
    /\ written[1].filesUsed # <<>>
    /\ \E c \in Cells : written[1].num[c] = 1
    /\ written[2].filesUsed = consumed[1].name

(***************************************************************************)
(* The growth of the point clouds: up to two granules whose pixels differ  *)
(* in position and value, so that the rows of one granule can be told from *)
(* the rows of another.                                                    *)
(***************************************************************************)
\* a second pixel inside both regions, with valid values other than the
\* reference pixel's
OtherPixel(s) ==
    IF s \in OCSwathScripts
    THEN [lon |-> -110, lat |-> 40, chlor_a |-> 7, Kd_490 |-> 7, par |-> 7, nflh |-> 7]
    ELSE [lon |-> -110, lat |-> 40, sst |-> 120, qual_sst |-> 1]

\* a pixel north of both regions
OutsidePixel(s) == [RefPixel(s) EXCEPT !.lat = 70]

\* the swaths of a granule: one or two accepted pixels in either order, a
\* rejected pixel alone and between two accepted ones
CloudPixelLists(s) ==
    {<<RefPixel(s)>>, <<OtherPixel(s)>>, <<OutsidePixel(s)>>,
     <<RefPixel(s), OtherPixel(s)>>, <<OtherPixel(s), RefPixel(s)>>,
     <<OtherPixel(s), OutsidePixel(s), RefPixel(s)>>}

\* what Dataset(fileName, 'r') may give: a daytime granule, a night granule, an
\* exception
CloudOutcomes(s) ==
    {[ok |-> TRUE, day_night_flag |-> "Day", pixels |-> px] : px \in CloudPixelLists(s)}
    \cup {[ok |-> TRUE, day_night_flag |-> "Night", pixels |-> <<OtherPixel(s)>>],
          Unreadable}

CloudInit ==
    /\ script \in SwathScripts
    /\ argv = [endyearC |-> Str(2025), endDoy |-> Rjust(Str(82), DoyWidth), arg5 |-> <<>>]
    /\ fs \in SubsetsUpTo(SwathCandidates(script), MaxGranules)
    /\ content \in [fs -> CloudOutcomes(script)]
    /\ CompositeIdle
    /\ SwathStart

CloudSpec == CloudInit /\ [][SwathNext]_vars

\* the step is an iteration of a granule loop
GranuleStep == pc \in {"loop1", "loop2"} /\ idx <= Len(fileList) /\ idx' = idx + 1

\* the granule of the iteration is processed and passes the extent and day tests
Accepted == Selected(Current) /\ CurrentDs.ok /\ Extracted(script, CurrentDs)

\* the rows of the pixels of the current granule that the filters of the k-th
\* variable keep, in the order of the pixels
AcceptedRows(k) == DataOut(script, pc, SwathVariables(script)[k], CurrentDs.pixels)

\* C30: in every swath script the point cloud of a variable only grows by
\* appending: after the iteration of any granule it is the cloud of before,
\* unchanged and in the same order, followed by the accepted rows of that
\* granule; a granule that is skipped, unreadable, rejected or without accepted
\* rows leaves it unchanged, and so does every step after the loops.  Checked
\* under CloudSpec.
C30_AppendOnly ==
    [][pc # "start" =>
          \A k \in DOMAIN temp_data :
              /\ Len(temp_data'[k]) >= Len(temp_data[k])
              /\ SubSeq(temp_data'[k], 1, Len(temp_data[k])) = temp_data[k]
              /\ NewRows(k) = IF GranuleStep /\ Accepted THEN AcceptedRows(k) ELSE <<>>]_vars

\* the cloud of the first variable holds the two rows of a first granule followed
\* by the row of a second one
C30_Witness ==
    /\ pc \in {"loop1", "loop2"}
    /\ Len(temp_data[1]) = 3
    /\ temp_data[1][1] = Row(SwathVariables(script)[1], OtherPixel(script))
    /\ temp_data[1][2] = Row(SwathVariables(script)[1], RefPixel(script))
    /\ temp_data[1][3] = Row(SwathVariables(script)[1], OtherPixel(script))
    /\ Len(staged) = 2

=============================================================================
